---- MODULE Spec2Model ----
(***************************************************************************)
(* Model of src/analyzer/dom_analysis_pv_to_atc.py: the DOM stability      *)
(* detector wait_for_dom_stability and the sequential pipeline of main().  *)
(*                                                                         *)
(* Durations are integers counted in tenths of a second, so that           *)
(* check_interval=0.5 is 5 and timeout=5.0 is 50, and int(timeout //       *)
(* check_interval) is the integer quotient.                                *)
(* Strings the code edits (URLs, file names) are sequences of symbols: a   *)
(* symbol is one character, or a run of characters that holds none of      *)
(* ':' and '/' and so can take no part in a match of "https://", "http://" *)
(* or "/".                                                                 *)
(***************************************************************************)
EXTENDS Integers, Sequences, FiniteSets, TLC

VARIABLES
    \* ---- wait_for_dom_stability: parameters and locals
    check_interval,     \* parameter, tenths of a second
    stable_iterations,  \* parameter
    timeout,            \* parameter, tenths of a second
    max_checks,         \* local, line 42
    last_size,          \* local, line 43
    stable_count,       \* local, line 44
    iter,               \* number of loop iterations begun (the range() cursor)
    dpc,                \* position in the function
    outcome,            \* what the function printed before returning
    samples,            \* history: the sizes page.content() gave, in order
    elapsed,            \* history: time slept so far by time.sleep
    \* ---- main
    pc,                 \* position in main
    argv1,              \* sys.argv[1], or NoArg
    target_url,         \* line 63
    dirs,               \* the directories that exist under ../selectors
    prepared_dir,       \* history: directory main ensured at lines 67-68
    browser,            \* "none" | "open" | "closed"
    page_ops,           \* history: the kinds of operation performed on the page
    html,               \* "none" | "raw" | "clean"
    response,           \* combined_text, a sequence of tokens
    written,            \* files written: set of [dir, content]
    write_dir,          \* history: directory of the open() at line 297
    printed,            \* history: the "=== ... ===" banners main printed
    steps               \* history: pipeline steps performed, in order

detVars == <<check_interval, stable_iterations, timeout, max_checks, last_size,
             stable_count, iter, dpc, outcome, samples, elapsed>>
mainVars == <<pc, argv1, target_url, dirs, prepared_dir, browser, html,
              response, written, write_dir, printed, steps>>
vars == <<detVars, mainVars, page_ops>>

----------------------------------------------------------------------------
\* Bounds of the model

MaxInterval == 3
MaxTimeout == 6
MaxStable == 2
MaxResp == 3

\* The sizes len(page.content()) may give (always >= 0, so never the
\* initial last_size of -1).
Sizes == {100, 150}

----------------------------------------------------------------------------
\* wait_for_dom_stability

\* line 42: max_checks = int(timeout // check_interval)
MaxChecks_OffByOne(to, ci) == (to \div ci) + 1
MaxChecks(to, ci) == to \div ci

\* line 51: if stable_count >= stable_iterations
Stabilized_Strict(sc, si) == sc > si
Stabilized(sc, si) == sc >= si

\* lines 49-56: the new stable_count for a sample of `size`
NextStableCount_NoReset(size, last, sc) == IF size = last THEN sc + 1 ELSE sc
NextStableCount(size, last, sc) == IF size = last THEN sc + 1 ELSE 0

\* lines 49-56: the new last_size (assigned in the else branch only)
NextLastSize_Stale(size, last) == last
NextLastSize(size, last) == IF size = last THEN last ELSE size

DetInit ==
    /\ check_interval = 0
    /\ stable_iterations = 0
    /\ timeout = 0
    /\ max_checks = 0
    /\ last_size = -1
    /\ stable_count = 0
    /\ iter = 0
    /\ dpc = "idle"
    /\ outcome = "none"
    /\ samples = <<>>
    /\ elapsed = 0

\* lines 36-44: entry with the given arguments
Call(ci, si, to) ==
    /\ dpc = "idle"
    /\ check_interval' = ci
    /\ stable_iterations' = si
    /\ timeout' = to
    /\ max_checks' = MaxChecks(to, ci)
    /\ last_size' = -1
    /\ stable_count' = 0
    /\ iter' = 0
    /\ dpc' = "loop"
    /\ outcome' = "none"
    /\ samples' = <<>>
    /\ elapsed' = 0

\* lines 46-56: one pass of the loop body up to the sleep, or the return
SampleBody(size) ==
    /\ dpc = "loop"
    /\ iter < max_checks
    /\ iter' = iter + 1
    /\ page_ops' = page_ops \cup {"content"}
    /\ samples' = Append(samples, size)
    /\ stable_count' = NextStableCount(size, last_size, stable_count)
    /\ last_size' = NextLastSize(size, last_size)
    /\ IF size = last_size /\ Stabilized(stable_count', stable_iterations)
       THEN /\ outcome' = "stabilized"
            /\ dpc' = "returned"
       ELSE /\ outcome' = outcome
            /\ dpc' = "sleep"
    /\ UNCHANGED <<check_interval, stable_iterations, timeout, max_checks, elapsed>>

Sample ==
    /\ \E size \in Sizes : SampleBody(size)
    /\ UNCHANGED mainVars

\* line 57: time.sleep(check_interval)
Sleep ==
    /\ dpc = "sleep"
    /\ elapsed' = elapsed + check_interval
    /\ dpc' = "loop"
    /\ UNCHANGED <<check_interval, stable_iterations, timeout, max_checks,
                   last_size, stable_count, iter, outcome, samples>>
    /\ UNCHANGED <<mainVars, page_ops>>

\* lines 46, 59: range(max_checks) is exhausted; warn and return
Exhaust ==
    /\ dpc = "loop"
    /\ iter >= max_checks
    /\ outcome' = "warning"
    /\ dpc' = "returned"
    /\ UNCHANGED <<check_interval, stable_iterations, timeout, max_checks,
                   last_size, stable_count, iter, samples, elapsed>>
    /\ UNCHANGED <<mainVars, page_ops>>

----------------------------------------------------------------------------
\* Strings

H == <<"h", "t", "t", "p", "s", ":", "/", "/">>     \* "https://"
P == <<"h", "t", "t", "p", ":", "/", "/">>          \* "http://"
Slash == <<"/">>                                    \* "/"

\* str.replace(pat, ""): every non-overlapping occurrence, left to right
RECURSIVE RemoveAll(_, _)
RemoveAll(s, pat) ==
    IF Len(s) < Len(pat) THEN s
    ELSE IF SubSeq(s, 1, Len(pat)) = pat
         THEN RemoveAll(SubSeq(s, Len(pat) + 1, Len(s)), pat)
         ELSE <<Head(s)>> \o RemoveAll(Tail(s), pat)

\* lines 33-34
normalize_file_name(filename) ==
    RemoveAll(RemoveAll(RemoveAll(filename, H), P), Slash)

\* line 63: the default URL "https://www.grass-direct.co.uk/"
DefaultUrl == H \o <<"www.grass-direct.co.uk", "/">>

\* line 292: the default file name "www.grass-direct.co.uk.json"
DefaultFileName == <<"www.grass-direct.co.uk", ".json">>

\* len(sys.argv) <= 1
NoArg == <<"<no argument>">>

\* no open() was attempted
NoDir == <<"<no directory>">>

\* The command lines tried: no argument, the sample URL spelled out, another
\* site over http with a path, and the literal default file name.
Args ==
    { NoArg,
      DefaultUrl,
      P \o <<"example.com", "/", "shop">>,
      DefaultFileName }

\* The directories under ../selectors that earlier runs may have left.
InitDirs == SUBSET { <<"www.grass-direct.co.uk">>, DefaultFileName }

\* line 63
TargetUrl(a) == IF a = NoArg THEN DefaultUrl ELSE a

\* lines 292-294: the name put into the path of the report
FileName(a) ==
    LET file_name == IF a = NoArg THEN DefaultFileName ELSE a
    IN  IF file_name # DefaultFileName
        THEN normalize_file_name(file_name)
        ELSE file_name

----------------------------------------------------------------------------
\* The analysis response

\* Keys and status values of the report schema the prompt asks for
RequiredKeys == {"url", "timestamp", "elements", "notes", "status"}
StatusValues == {"success", "partial", "failed"}

\* JSON documents a response may carry: complete ones with each status value
\* and one outside the enumeration, and ones lacking one required key.
Docs ==
    { [kind |-> "json", keys |-> RequiredKeys, status |-> st] :
        st \in StatusValues \cup {"unknown"} }
    \cup
    { [kind |-> "json", keys |-> RequiredKeys \ {k},
       status |-> IF k = "status" THEN "-" ELSE "success"] : k \in RequiredKeys }

\* combined_text as a sequence of tokens: Open is the text ```json, Close
\* is the text ```, Ws is a run of white space, Txt is free text that is not
\* JSON (and neither blank nor holding backticks), and a document of Docs is
\* its JSON text.
Tok(k) == [kind |-> k, keys |-> {}, status |-> "-"]
Open == Tok("open")
Close == Tok("close")
Txt == Tok("txt")
Ws == Tok("ws")
Tokens == {Open, Close, Txt, Ws}
Fences == {Open, Close}
IsDoc(tok) == tok.kind = "json"

RECURSIVE SeqsUpTo(_, _)
SeqsUpTo(S, n) ==
    IF n = 0 THEN { <<>> }
    ELSE LET shorter == SeqsUpTo(S, n - 1)
         IN  shorter \cup { Append(s, x) : s \in shorter, x \in S }

Responses == SeqsUpTo(Tokens \cup Docs, MaxResp)

\* line 281: re.search(r"```json(.*?)```", combined_text, flags=re.DOTALL).
\* The match starts at the leftmost ```json that has a later ```; the lazy
\* group ends at the first ``` after it, and the text ```json itself starts
\* with ```, so both fences end the group. The result is <<start, end>>, or <<0, 0>> for no match.
FenceSearch(text) ==
    LET opens == { i \in 1..Len(text) : text[i] = Open /\
                     \E j \in (i + 1)..Len(text) : text[j] \in Fences }
    IN  IF opens = {} THEN <<0, 0>>
        ELSE LET i == CHOOSE x \in opens : \A y \in opens : x <= y
                 j == CHOOSE x \in (i + 1)..Len(text) :
                        /\ text[x] \in Fences
                        /\ \A y \in (i + 1)..Len(text) :
                             text[y] \in Fences => x <= y
             IN  <<i, j>>

\* line 284: match.group(1)
Group1(text, m) == SubSeq(text, m[1] + 1, m[2] - 1)

\* line 284: str.strip() drops the white space at both ends
RECURSIVE LStrip(_)
LStrip(s) == IF s # <<>> /\ Head(s) = Ws THEN LStrip(Tail(s)) ELSE s
RECURSIVE RStrip(_)
RStrip(s) ==
    IF s # <<>> /\ s[Len(s)] = Ws THEN RStrip(SubSeq(s, 1, Len(s) - 1)) ELSE s
Strip(s) == RStrip(LStrip(s))

\* line 286: json.loads succeeds on exactly one JSON document; the empty
\* string, free text and a document followed by more text raise
\* JSONDecodeError.
JsonLoadsOk_NoRaise(json_str) == TRUE
JsonLoadsOk(json_str) == Len(json_str) = 1 /\ IsDoc(json_str[1])

----------------------------------------------------------------------------
\* main

\* line 88: the arguments main passes, in tenths of a second where durations
MainInterval == 5
MainStable == 3
MainTimeout == 50

\* lines 88-91: main goes on to the extraction whatever the detector printed
AfterStability_Fatal(o) == IF o = "warning" THEN "close" ELSE "extract"
AfterStability_Retry(o) == IF o = "warning" THEN "goto" ELSE "extract"
AfterStability(o) == "extract"

MainInit ==
    /\ pc = "start"
    /\ argv1 \in Args
    /\ target_url = <<>>
    /\ dirs \in InitDirs
    /\ prepared_dir = NoDir
    /\ browser = "none"
    /\ page_ops = {}
    /\ html = "none"
    /\ response = <<>>
    /\ written = <<>>
    /\ write_dir = NoDir
    /\ printed = <<>>
    /\ steps = <<>>

Init == DetInit /\ MainInit

\* lines 63-68: the target URL and its folder under ../selectors
Start ==
    /\ pc = "start"
    /\ target_url' = TargetUrl(argv1)
    /\ prepared_dir' = normalize_file_name(target_url')
    /\ dirs' = dirs \cup {prepared_dir'}
    /\ pc' = "launch"
    /\ UNCHANGED <<argv1, browser, html, response, written, write_dir, printed, steps>>
    /\ UNCHANGED <<detVars, page_ops>>

\* lines 74-81: launch the browser and open a page
Launch ==
    /\ pc = "launch"
    /\ browser' = "open"
    /\ pc' = "goto"
    /\ UNCHANGED <<argv1, target_url, dirs, prepared_dir, html, response, written,
                   write_dir, printed, steps>>
    /\ UNCHANGED <<detVars, page_ops>>

\* line 85: page.goto(target_url, wait_until="domcontentloaded")
Goto ==
    /\ pc = "goto"
    /\ page_ops' = page_ops \cup {"goto"}
    /\ steps' = Append(steps, "load")
    /\ pc' = IF browser = "open" THEN "stability" ELSE "crashed"
    /\ UNCHANGED <<argv1, target_url, dirs, prepared_dir, browser, html, response,
                   written, write_dir, printed>>
    /\ UNCHANGED detVars

\* line 88: wait_for_dom_stability(page, 0.5, 3, 5.0) is entered
CallStability ==
    /\ pc = "stability"
    /\ Call(MainInterval, MainStable, MainTimeout)
    /\ pc' = "in_stability"
    /\ UNCHANGED <<argv1, target_url, dirs, prepared_dir, browser, html, response,
                   written, write_dir, printed, steps>>
    /\ UNCHANGED page_ops

\* lines 53, 59 -> 91: the detector returns to main and its frame is dropped
StabilityReturn ==
    /\ pc = "in_stability"
    /\ dpc = "returned"
    /\ pc' = AfterStability(outcome)
    /\ steps' = Append(steps, "stability")
    /\ dpc' = "idle"
    /\ max_checks' = 0
    /\ last_size' = -1
    /\ stable_count' = 0
    /\ iter' = 0
    /\ samples' = <<>>
    /\ elapsed' = 0
    /\ UNCHANGED <<check_interval, stable_iterations, timeout, outcome>>
    /\ UNCHANGED <<argv1, target_url, dirs, prepared_dir, browser, html, response,
                   written, write_dir, printed>>
    /\ UNCHANGED page_ops

\* lines 91-92: html = page.content(); a closed page raises
Extract ==
    /\ pc = "extract"
    /\ page_ops' = page_ops \cup {"content"}
    /\ IF browser = "open"
       THEN /\ html' = "raw"
            /\ steps' = Append(steps, "extract")
            /\ pc' = "sanitize"
       ELSE /\ pc' = "crashed"
            /\ UNCHANGED <<html, steps>>
    /\ UNCHANGED <<argv1, target_url, dirs, prepared_dir, browser, response,
                   written, write_dir, printed>>
    /\ UNCHANGED detVars

\* lines 95-102: BeautifulSoup cleanup
Sanitize ==
    /\ pc = "sanitize"
    /\ html' = "clean"
    /\ steps' = Append(steps, "sanitize")
    /\ pc' = "close"
    /\ UNCHANGED <<argv1, target_url, dirs, prepared_dir, browser, response,
                   written, write_dir, printed>>
    /\ UNCHANGED <<detVars, page_ops>>

\* line 105: browser.close()
CloseBrowser ==
    /\ pc = "close"
    /\ browser' = "closed"
    /\ pc' = "analyze"
    /\ UNCHANGED <<argv1, target_url, dirs, prepared_dir, html, response, written,
                   write_dir, printed, steps>>
    /\ UNCHANGED <<detVars, page_ops>>

\* lines 255-278: the call of the Messages API; blocks holds at least one
\* block and combined_text is any response
Analyze ==
    /\ pc = "analyze"
    /\ response' \in Responses
    /\ steps' = Append(steps, "analyze")
    /\ pc' = "parse"
    /\ UNCHANGED <<argv1, target_url, dirs, prepared_dir, browser, html, written,
                   write_dir, printed>>
    /\ UNCHANGED <<detVars, page_ops>>

\* lines 281-298: a fenced block is found and parses; the report is written
\* into ../selectors/<file_name>/, and open() raises FileNotFoundError,
\* which nothing catches, when that directory does not exist
PersistReport ==
    /\ pc = "parse"
    /\ LET m == FenceSearch(response)
           json_str == Strip(Group1(response, m))
       IN  /\ m # <<0, 0>>
           /\ JsonLoadsOk(json_str)
           /\ printed' = printed \o <<"PARSED JSON", "WRITING JSON TO FILE">>
           /\ write_dir' = FileName(argv1)
           /\ IF write_dir' \in dirs
              THEN /\ written' = Append(written, [dir |-> write_dir', content |-> json_str])
                   /\ steps' = Append(steps, "write")
                   /\ pc' = "done"
              ELSE /\ pc' = "crashed"
                   /\ UNCHANGED <<written, steps>>
    /\ UNCHANGED <<argv1, target_url, dirs, prepared_dir, browser, html, response>>
    /\ UNCHANGED <<detVars, page_ops>>

\* lines 281-286, 299-301: a fenced block is found and json.loads raises
DecodeError ==
    /\ pc = "parse"
    /\ LET m == FenceSearch(response)
           json_str == Strip(Group1(response, m))
       IN  /\ m # <<0, 0>>
           /\ ~JsonLoadsOk(json_str)
    /\ printed' = Append(printed, "RAW TEXT (JSON decode error)")
    /\ pc' = "done"
    /\ UNCHANGED <<argv1, target_url, dirs, prepared_dir, browser, html, response,
                   written, write_dir, steps>>
    /\ UNCHANGED <<detVars, page_ops>>

\* lines 281-283, 302-308: no fenced block
NoJsonBlock ==
    /\ pc = "parse"
    /\ FenceSearch(response) = <<0, 0>>
    /\ printed' = printed \o <<"RAW TEXT", "RAW JSON">>
    /\ pc' = "done"
    /\ UNCHANGED <<argv1, target_url, dirs, prepared_dir, browser, html, response,
                   written, write_dir, steps>>
    /\ UNCHANGED <<detVars, page_ops>>

Next ==
    \/ Start
    \/ Launch
    \/ Goto
    \/ CallStability
    \/ Sample
    \/ Sleep
    \/ Exhaust
    \/ StabilityReturn
    \/ Extract
    \/ Sanitize
    \/ CloseBrowser
    \/ Analyze
    \/ PersistReport
    \/ DecodeError
    \/ NoJsonBlock

\* One run of main
Spec == Init /\ [][Next]_vars

----------------------------------------------------------------------------
\* wait_for_dom_stability on its own, for every argument within the bounds
\* and for the arguments main passes

DetArgs ==
    ((1..MaxInterval) \X (1..MaxStable) \X (1..MaxTimeout))
    \cup { <<MainInterval, MainStable, MainTimeout>> }

DetSpecInit ==
    /\ DetInit
    /\ pc = "detector"
    /\ argv1 = NoArg
    /\ target_url = <<>>
    /\ dirs = {}
    /\ prepared_dir = NoDir
    /\ browser = "open"
    /\ page_ops = {}
    /\ html = "none"
    /\ response = <<>>
    /\ written = <<>>
    /\ write_dir = NoDir
    /\ printed = <<>>
    /\ steps = <<>>

DetCall ==
    /\ pc = "detector"
    /\ \E a \in DetArgs : Call(a[1], a[2], a[3])
    /\ UNCHANGED <<mainVars, page_ops>>

DetNext ==
    \/ DetCall
    \/ Sample
    \/ Sleep
    \/ Exhaust

DetSpec == DetSpecInit /\ [][DetNext]_vars

\* The function is sequential code: a step that can be taken is taken
FairDetSpec == DetSpec /\ WF_vars(DetNext)

----------------------------------------------------------------------------
\* Notions the properties are stated in

\* n consecutive equal values end at position j of s
RunEndsAt(s, n, j) ==
    /\ n >= 1
    /\ j >= n
    /\ j <= Len(s)
    /\ \A k \in 0..(n - 1) : s[j - k] = s[j]

\* s holds n consecutive equal values
HasRun(s, n) == \E j \in 1..Len(s) : RunEndsAt(s, n, j)

\* the 1-based index of the first sample completing a run of n equal values
FirstRunEnd(s, n) ==
    CHOOSE j \in 1..Len(s) :
        /\ RunEndsAt(s, n, j)
        /\ \A i \in 1..(j - 1) : ~RunEndsAt(s, n, i)

\* the length of the longest run of equal values ending at the last value
RunLen(s) ==
    IF s = <<>> THEN 0
    ELSE CHOOSE n \in 1..Len(s) :
           /\ RunEndsAt(s, n, Len(s))
           /\ ~RunEndsAt(s, n + 1, Len(s))

\* every sample differs from the one before it
ChangesEverySample(s) == \A i \in 1..(Len(s) - 1) : s[i] # s[i + 1]

\* the report schema: every required top-level key, and an enumerated status
SchemaValid(doc) == RequiredKeys \subseteq doc.keys /\ doc.status \in StatusValues

\* the response holds a fenced block: a ```json and a ``` after it
HasFencedBlock(resp) ==
    \E i \in 1..Len(resp) : \E j \in (i + 1)..Len(resp) :
        resp[i] = Open /\ resp[j] \in Fences

\* the first fenced block of the response is one JSON document, white space
\* around it aside
BlockIsJson(resp) ==
    \E i \in 1..Len(resp) : \E j \in (i + 1)..Len(resp) :
        /\ resp[i] = Open
        /\ \A k \in 1..(i - 1) : resp[k] # Open
        /\ resp[j] \in Fences
        /\ \A k \in (i + 1)..(j - 1) : resp[k] \notin Fences
        /\ \E d \in (i + 1)..(j - 1) :
             /\ IsDoc(resp[d])
             /\ \A k \in ((i + 1)..(j - 1)) \ {d} : resp[k] = Ws

\* the order of the steps of one run
Pipeline == <<"load", "stability", "extract", "sanitize", "analyze", "write">>

IsPrefix(s, t) == Len(s) <= Len(t) /\ s = SubSeq(t, 1, Len(s))

Returned == dpc = "returned"

----------------------------------------------------------------------------
\* C1 (as stated): when the detector has returned and the samples it took
\* hold stable_iterations consecutive equal values, it printed "DOM has
\* stabilized." and the number of samples taken is the index of the first
\* sample completing such a run.
C1_Original ==
    (Returned /\ HasRun(samples, stable_iterations))
        => /\ outcome = "stabilized"
           /\ Len(samples) = FirstRunEnd(samples, stable_iterations)

\* C1 (amended): when the detector has returned and the samples it took hold
\* stable_iterations + 1 consecutive equal values, it printed "DOM has
\* stabilized." and the number of samples taken is the index of the first
\* sample completing a run of stable_iterations + 1 equal values.
C1_Amended ==
    (Returned /\ HasRun(samples, stable_iterations + 1))
        => /\ outcome = "stabilized"
           /\ Len(samples) = FirstRunEnd(samples, stable_iterations + 1)

\* The scenario of C1 with main's arguments: the run of three 150s does not
\* settle the detector, the fourth 150 does.
C1_Witness ==
    /\ Returned
    /\ outcome = "stabilized"
    /\ check_interval = MainInterval
    /\ stable_iterations = MainStable
    /\ timeout = MainTimeout
    /\ samples = <<100, 150, 150, 150, 150>>

\* C2 (as stated): with 0 < timeout < check_interval the detector returns
\* having taken exactly one sample.
C2_Original ==
    (Returned /\ 0 < timeout /\ timeout < check_interval) => Len(samples) = 1

\* C3: with stable_iterations >= 2, as long as the samples taken hold no
\* stable_iterations consecutive equal values the detector has not printed
\* "DOM has stabilized.", and when it returns it has printed the warning.
C3_NoRunNotSettled ==
    (stable_iterations >= 2 /\ ~HasRun(samples, stable_iterations))
        => /\ outcome # "stabilized"
           /\ (Returned => outcome = "warning")

C3_Witness ==
    /\ Returned
    /\ outcome = "warning"
    /\ stable_iterations >= 3
    /\ ~HasRun(samples, stable_iterations)
    /\ HasRun(samples, stable_iterations - 1)
    /\ Len(samples) > stable_iterations

\* C8: after each sample, last_size is the most recent sample and
\* stable_count is the length of the run of equal samples ending at it,
\* minus one; the detector has printed "DOM has stabilized." exactly when
\* stable_count has reached stable_iterations, no earlier sample had reached
\* it, and no sample follows.
C8_Inv ==
    (dpc # "idle" /\ samples # <<>>)
        => /\ last_size = samples[Len(samples)]
           /\ stable_count = RunLen(samples) - 1
           /\ (outcome = "stabilized" <=> stable_count >= stable_iterations)
           /\ (outcome = "stabilized" => Returned /\ stable_count = stable_iterations)
           /\ \A k \in 1..(Len(samples) - 1) :
                RunLen(SubSeq(samples, 1, k)) - 1 < stable_iterations
C8_LoopInvariant ==
    /\ []C8_Inv
    /\ [][outcome = "stabilized" => samples' = samples]_vars

C8_Witness ==
    /\ Returned
    /\ outcome = "stabilized"
    /\ stable_iterations >= 2
    /\ ~ChangesEverySample(SubSeq(samples, 1, Len(samples) - stable_iterations))
    /\ Len(samples) >= stable_iterations + 3

\* C9: the detector returns; it never takes more than timeout div
\* check_interval samples; when it returns without having stabilized it has
\* taken exactly that many and printed the warning; and it takes no sample
\* once the time slept exceeds timeout.
C9_Inv ==
    dpc # "idle"
        => /\ Len(samples) <= timeout \div check_interval
           /\ (Returned /\ outcome # "stabilized"
                 => /\ outcome = "warning"
                    /\ Len(samples) = timeout \div check_interval)
C9_Terminates ==
    /\ []C9_Inv
    /\ [][Len(samples') > Len(samples) => elapsed <= timeout]_vars
    /\ <>Returned

C9_Witness ==
    /\ Returned
    /\ outcome = "warning"
    /\ ChangesEverySample(samples)
    /\ Len(samples) >= 3
    /\ Len(samples) = timeout \div check_interval
    /\ elapsed = Len(samples) * check_interval

\* C4 (as stated): every report file written holds a document with all the
\* required top-level keys and a status of success, partial or failed.
C4_Original ==
    \A i \in 1..Len(written) :
        \A k \in 1..Len(written[i].content) : SchemaValid(written[i].content[k])

\* C5: while the response holds no fenced block, or its first fenced block
\* is not one JSON document, no file is written and no open() is attempted,
\* and when main ends it has printed the raw text; so a file is written only
\* for a response whose fenced block parses.
C5_MalformedNeverPersisted ==
    /\ (~HasFencedBlock(response) \/ ~BlockIsJson(response))
         => /\ written = <<>>
            /\ write_dir = NoDir
            /\ (pc = "done" /\ ~HasFencedBlock(response)
                  => printed = <<"RAW TEXT", "RAW JSON">>)
            /\ (pc = "done" /\ HasFencedBlock(response)
                  => printed = <<"RAW TEXT (JSON decode error)">>)
    /\ written # <<>> => HasFencedBlock(response) /\ BlockIsJson(response)

C5_Witness ==
    /\ pc = "done"
    /\ HasFencedBlock(response)
    /\ ~BlockIsJson(response)
    /\ \E i \in 1..Len(response) : IsDoc(response[i])
    /\ written = <<>>

\* C6: when the detector returns, stabilized or not, main's next step is
\* the extraction and the browser is still open; the extraction reads the
\* open page; the browser is closed only once the HTML has been extracted;
\* and while the detector runs nothing happens to the page but reading its
\* content.
C6_Step ==
    /\ (pc = "in_stability" /\ Returned) => (pc' = "extract" /\ browser' = "open")
    /\ pc = "extract" => (browser = "open" /\ html' = "raw")
    /\ (browser = "open" /\ browser' # "open") => html # "none"
    /\ pc = "in_stability" =>
         /\ browser' = browser
         /\ html' = html
         /\ page_ops' \subseteq page_ops \cup {"content"}
C6_PageUsableAfterStability == [][C6_Step]_vars

C6_Witness ==
    /\ pc = "sanitize"
    /\ outcome = "warning"
    /\ html = "raw"
    /\ browser = "open"

\* C7 (as stated): the directory of the report file main opens for writing
\* is the directory it prepared at start-up for the target URL.
C7_Original == write_dir # NoDir => write_dir = prepared_dir

\* C10: the steps of a run are a prefix of load, stability, extract,
\* sanitize, analyze, write, each at most once and in that order; the
\* detector samples only a loaded page; and at most one report is written.
C10_Sequential ==
    /\ IsPrefix(steps, Pipeline)
    /\ Len(written) <= 1
    /\ (samples # <<>> \/ dpc # "idle") => steps = <<"load">>
    /\ html # "none" => IsPrefix(<<"load", "stability", "extract">>, steps)
    /\ response # <<>> => html = "clean"
    /\ written # <<>> => steps = Pipeline

C10_Witness ==
    /\ pc = "done"
    /\ steps = Pipeline
    /\ Len(written) = 1
    /\ outcome = "warning"

====
